---- MODULE Spec2Model ----
(***************************************************************************)
(* Model of the GitHub connectors of pgmac-net/metasearch:                 *)
(*   "gists" : src/unnamed/part_000            (users, repositories+gists) *)
(*   "users" : src/src/engines/github-users.ts lines 1-167 (users)         *)
(*   "orgs"  : src/src/engines/github-users.ts lines 168-324 (orgs)        *)
(* One step of the model is one run-to-completion step of the JavaScript   *)
(* event loop: a call of init or search up to its first await, or the      *)
(* continuation that runs when an awaited request or promise settles.      *)
(***************************************************************************)
EXTENDS Integers, Sequences, FiniteSets, TLC

VARIABLES variant, client, getRepos, users, inflight, walkCount, walks, lastWalk,
          pc, query, started, idx, results, awaiting, data, err, liveReqs

vars == <<variant, client, getRepos, users, inflight, walkCount, walks, lastWalk,
          pc, query, started, idx, results, awaiting, data, err, liveReqs>>

\* ------------------------------------------------------------------ bounds
MaxAccounts == 2
MaxPages == 2
NumSearches == 2
MaxInits == 2

\* ------------------------------------------------------------ basic values
Variants == {"gists", "users", "orgs"}
AccountNames == <<"alice", "bob", "ghost", "carol">>
Searches == 1..NumSearches

\* An optional value (null | T) is a sequence of length at most one.
Null == <<>>
Some(x) == <<x>>
NoCursor == "none"
EmptyMap == [u \in {} |-> 0]
Range(s) == {s[k] : k \in 1..Len(s)}

\* ----------------------------------------------------------------- text
\* A string is the sequence of its characters.
UpperChars == <<"A","B","C","D","E","F","G","H","I","J","K","L","M",
                "N","O","P","Q","R","S","T","U","V","W","X","Y","Z">>
LowerChars == <<"a","b","c","d","e","f","g","h","i","j","k","l","m",
                "n","o","p","q","r","s","t","u","v","w","x","y","z">>
Digits == {"0","1","2","3","4","5","6","7","8","9"}
Spaces == {" "}

ToLower(c) ==
  IF \E k \in 1..26 : UpperChars[k] = c
    THEN LowerChars[CHOOSE k \in 1..26 : UpperChars[k] = c]
    ELSE c

\* /\w/
IsWordChar(c) == c \in Range(UpperChars) \cup Range(LowerChars) \cup Digits \cup {"_"}

Normalize(s) ==
  LET low == [k \in 1..Len(s) |-> ToLower(s[k])]
  IN  SelectSeq(low, LAMBDA c : c \notin Spaces)

Includes(h, n) ==
  \E k \in 0..(Len(h) - Len(n)) : SubSeq(h, k + 1, k + Len(n)) = n

\* util.fuzzyIncludes(haystack, query)
fuzzyIncludes(s, q) == Includes(Normalize(s), Normalize(q))

StartsWithAt(s, k, p) ==
  /\ k + Len(p) - 1 <= Len(s)
  /\ SubSeq(s, k, k + Len(p) - 1) = p

\* util.escapeQuotes(q): every double quote gets a backslash in front.
RECURSIVE escapeQuotes(_)
escapeQuotes(s) ==
  IF s = <<>> THEN <<>>
  ELSE (IF Head(s) = "\"" THEN <<"\\", "\"">> ELSE <<Head(s)>>) \o escapeQuotes(Tail(s))


\* ASCII order of the characters the model uses, for JavaScript's string ">".
Alphabet == <<" ", "\"", "-">> \o <<"0","1","2","3","4","5","6","7","8","9">>
            \o <<":">> \o UpperChars \o <<"\\", "_">> \o LowerChars
CharCode(c) == CHOOSE k \in 1..Len(Alphabet) : Alphabet[k] = c

RECURSIVE StrGt(_, _)
StrGt(a, b) ==
  IF a = <<>> THEN FALSE
  ELSE IF b = <<>> THEN TRUE
  ELSE IF Head(a) = Head(b) THEN StrGt(Tail(a), Tail(b))
  ELSE CharCode(Head(a)) > CharCode(Head(b))

RECURSIVE RunLen(_, _, _)
RunLen(s, k, set) ==
  IF k <= Len(s) /\ s[k] \in set THEN 1 + RunLen(s, k + 1, set) ELSE 0

\* Length of the match of / *:[a-z-]+: */ that starts at position k, 0 if none.
ShortcodeAt(s, k) ==
  LET sp   == RunLen(s, k, Spaces)
      c1   == k + sp
      n    == RunLen(s, c1 + 1, Range(LowerChars) \cup {"-"})
      c2   == c1 + 1 + n
      tail == RunLen(s, c2 + 1, Spaces)
  IN  IF c1 <= Len(s) /\ s[c1] = ":" /\ n >= 1 /\ c2 <= Len(s) /\ s[c2] = ":"
        THEN sp + 1 + n + 1 + tail
        ELSE 0

\* description.replace(/ *:[a-z-]+: */g, "")
RECURSIVE StripFrom(_, _)
StripFrom(s, k) ==
  IF k > Len(s) THEN <<>>
  ELSE IF ShortcodeAt(s, k) > 0 THEN StripFrom(s, k + ShortcodeAt(s, k))
  ELSE <<s[k]>> \o StripFrom(s, k + 1)

StripShortcodes(s) == StripFrom(s, 1)

\* ------------------------------------------------------- upstream values
\* Repo { description, isArchived, isFork, name }
RepoA == [name |-> <<"t","o","o","l">>, description |-> Some(<<"a"," ","C","L","I">>),
          isArchived |-> FALSE, isFork |-> FALSE]
RepoB == [name |-> <<"o","l","d">>, description |-> Null,
          isArchived |-> TRUE, isFork |-> FALSE]

\* Repositories for the runs over a wider choice of inputs: one that matches
\* "cli" by its name alone and has no description, an archived and a forked one
\* that match, one that matches nothing.
RepoC == [name |-> <<"c","l","i">>, description |-> Null,
          isArchived |-> FALSE, isFork |-> FALSE]
RepoArch == [name |-> <<"c","l","i","-","o","l","d">>,
             description |-> Some(<<"o","l","d"," ","c","l","i">>),
             isArchived |-> TRUE, isFork |-> FALSE]
RepoFork == [name |-> <<"c","l","i","f">>, description |-> Some(<<"c","l","i">>),
             isArchived |-> FALSE, isFork |-> TRUE]
RepoN == [name |-> <<"m","i","s","c">>, description |-> Some(<<"n","o","t","e","s">>),
          isArchived |-> FALSE, isFork |-> FALSE]

\* Gist { description, id, updated_at, html_url }
GistA == [description |-> Some(<<"c","l","i">>), id |-> "g1", updated_at |-> 10,
          html_url |-> [host |-> "gist.github.com", path |-> <<"g1">>]]

GistB == [description |-> Some(<<"C","L","I"," ","b">>), id |-> "g2", updated_at |-> 30,
          html_url |-> [host |-> "gist.github.com", path |-> <<"g2">>]]
GistN == [description |-> Null, id |-> "g3", updated_at |-> 5,
          html_url |-> [host |-> "gist.github.com", path |-> <<"g3">>]]
AllGists == {GistA, GistB, GistN}

\* An item of GET /search/issues.
HitA == [body |-> Some(<<"c","l","i">>), title |-> <<"c","l","i">>, updated_at |-> 20,
         pull_request |-> FALSE,
         html_url |-> [host |-> "github.com", path |-> <<"alice", "tool", "issues", "1">>]]

HitB == [body |-> Null, title |-> <<"f","i","x">>, updated_at |-> 25,
         pull_request |-> TRUE,
         html_url |-> [host |-> "github.com", path |-> <<"bob", "app", "pull", "2">>]]

\* The endCursor the upstream gives with the k-th page of an account.
CursorNames == <<"c1", "c2", "c3", "c4">>

Page(shape, edges, pageInfo) == [shape |-> shape, edges |-> edges, pageInfo |-> pageInfo]
LastPage == Some([hasNextPage |-> FALSE, endCursor |-> NoCursor])
MorePages(k) == Some([hasNextPage |-> TRUE, endCursor |-> CursorNames[k]])

\* The responses POST /graphql can give to the k-th page request of an account:
\* the request fails ("error"), the body lacks data or the owner ("noOwner") or
\* the owner's repositories ("noRepositories"), or it carries repositories
\* ("ok"), with or without edges and pageInfo.  `more` says whether hasNextPage
\* may still be true.
RichPages(k, more) ==
  { Page("error", Null, Null), Page("noOwner", Null, Null),
    Page("noRepositories", Null, Null),
    Page("ok", Null, LastPage), Page("ok", Some(<<RepoA>>), Null),
    Page("ok", Some(<<>>), LastPage), Page("ok", Some(<<RepoA, RepoA>>), LastPage) }
  \cup (IF more THEN { Page("ok", Some(<<RepoA>>), MorePages(k)) } ELSE {})

\* A smaller choice of responses, all of one page, for the runs with several
\* searches.
LeanPages ==
  { Page("error", Null, Null), Page("noOwner", Null, Null),
    Page("ok", Some(<<RepoB, RepoA>>), LastPage) }

\* The page responses of the runs over the wider choice of inputs.
WidePages ==
  { Page("noOwner", Null, Null),
    Page("ok", Some(<<RepoN>>), LastPage),
    Page("ok", Some(<<RepoA, RepoArch, RepoFork, RepoN, RepoC>>), LastPage) }

GistResponses == {[ok |-> FALSE, gists |-> <<>>], [ok |-> TRUE, gists |-> <<GistA>>]}

\* The answers to the gist request for a user in the runs over the wider choice
\* of inputs: the gists of a user have their urls under the user's name.
WideGistsOf(user) ==
  LET own(g) == [g EXCEPT !.html_url = [host |-> "gist.github.com", path |-> <<user, g.id>>]]
  IN  {[ok |-> FALSE, gists |-> <<>>],
       [ok |-> TRUE, gists |-> <<own(GistB), own(GistN), own(GistA)>>]}

LiveResponses == {[ok |-> FALSE, items |-> <<>>], [ok |-> TRUE, items |-> <<HitA>>]}

Queries == {<<"c","l","i">>}

\* The characters of an account name.
Chars(user) ==
  CASE user = "alice" -> <<"a","l","i","c","e">>
    [] user = "bob"   -> <<"b","o","b">>
    [] user = "ghost" -> <<"g","h","o","s","t">>
    [] OTHER          -> <<"c","a","r","o","l">>

\* A wider choice of queries: plain text, text with a double quote, an is:
\* qualifier, a scope qualifier (user: and org:) naming bob, and two texts that
\* only look like a qualifier.
WideQueries ==
  { <<"c","l","i">>,
    <<"a","\"","b">>,
    <<"i","s",":","p","r"," ","c","l","i">>,
    <<"u","s","e","r",":","b","o","b"," ","c","l","i">>,
    <<"o","r","g",":","b","o","b"," ","c","l","i">>,
    <<"t","h","i","s",":","x">>,
    <<"i","s",":"," ","c","l","i">> }

UserLists == {SubSeq(AccountNames, 1, n) : n \in 0..MaxAccounts}

\* ------------------------------------------------------------- the walk
\* A walk is one run of the producer handed to rateLimit: the closure over
\* usernames and axiosClient, its locals, and the requests it has issued
\* (reqs) and the responses it has processed (resps), in order.
PageRequest(user, cursor) == [kind |-> "page", user |-> user, cursor |-> cursor]
GistRequest(user) == [kind |-> "gist", user |-> user, cursor |-> NoCursor]

CurrentUser(w) == w.usernames[w.i]

\* Mutant of IssuePage: the request is sent without awaiting it, and sent again.
IssuePageUnawaited(w) ==
  [w EXCEPT !.reqs = @ \o <<PageRequest(w.usernames[w.i], w.cursor),
                             PageRequest(w.usernames[w.i], w.cursor)>>]

\* await axiosClient.post("/graphql", ...) with `cursor ? after: cursor : ""`.
IssuePage(w) ==
  [w EXCEPT !.reqs = Append(@, PageRequest(w.usernames[w.i], w.cursor))]

\* Mutant of BeginAccount: `let cursor` declared outside the loop over accounts.
BeginAccountKeepingCursor(w, i) ==
  IssuePage([w EXCEPT !.i = i, !.repos = <<>>, !.gists = <<>>, !.phase = "page"])

\* for (const user of usernames) { let cursor; const repos = new Set(); ...
BeginAccount(w, i) ==
  IssuePage([w EXCEPT !.i = i, !.cursor = NoCursor, !.repos = <<>>, !.gists = <<>>,
                      !.phase = "page"])

NewWalk(id, usernames) ==
  LET w == [id |-> id, usernames |-> usernames, i |-> 0, cursor |-> NoCursor,
            repos |-> <<>>, gists |-> <<>>, dataByUser |-> EmptyMap,
            phase |-> "page", status |-> "running", error |-> "",
            reqs |-> <<>>, resps |-> <<>>]
  IN  IF usernames = <<>> THEN [w EXCEPT !.status = "resolved"]
      ELSE BeginAccount(w, 1)

\* Mutant of IsLastAccount: `return dataByUser` inside the loop over accounts.
ReturnsInsideLoop(w) == TRUE

\* The loop is over once the last account of the list has been recorded.
IsLastAccount(w) == w.i >= Len(w.usernames)

\* dataByUser.set(user, { repos, gists }), then the next account or the return.
RecordAccount(w) ==
  LET u  == CurrentUser(w)
      d  == [x \in DOMAIN w.dataByUser \cup {u} |->
                IF x = u THEN [repos |-> w.repos, gists |-> w.gists]
                ELSE w.dataByUser[x]]
      w1 == [w EXCEPT !.dataByUser = d]
  IN  IF IsLastAccount(w) THEN [w1 EXCEPT !.status = "resolved"]
      ELSE BeginAccount(w1, w.i + 1)

\* What follows the page loop of an account: the gist request, or the record.
AfterPages(w) ==
  IF variant = "gists"
    THEN [w EXCEPT !.phase = "gist", !.reqs = Append(@, GistRequest(CurrentUser(w)))]
    ELSE RecordAccount(w)

Reject(w, e) == [w EXCEPT !.status = "rejected", !.error = e]

\* if (!data || !data.user || !data.user.repositories) break;
\* if (!data || !data.organization) break;
ShapeMissing(resp) ==
  IF variant = "orgs" THEN resp.shape \in {"noData", "noOwner"}
  ELSE resp.shape \in {"noData", "noOwner", "noRepositories"}

\* repos.add(r) for each node: the nodes of a parsed response are new objects,
\* and a Set of objects holds each object once, so every node is a new member.
AddEdges(repos, edges) == repos \o edges

\* Mutant of HasNextPage: the flag is not read.
HasNextPageIgnored(pageInfo) == TRUE

\* if (pageInfo.hasNextPage)
HasNextPage(pageInfo) == pageInfo.hasNextPage

\* cursor = pageInfo.endCursor, and the next turn of the while loop.
NextPage(w, pageInfo) == IssuePage([w EXCEPT !.cursor = pageInfo.endCursor])

DefaultPageInfo == [hasNextPage |-> FALSE, endCursor |-> NoCursor]

\* The continuation of `await axiosClient.post("/graphql", ...)`.
OnPageResponse(w, resp) ==
  LET w0 == [w EXCEPT !.resps = Append(@, resp)]
  IN  IF resp.shape = "error" THEN Reject(w0, "RequestFailed")
      ELSE IF ShapeMissing(resp) THEN AfterPages(w0)
      ELSE IF variant = "orgs" /\ (resp.shape = "noRepositories" \/ resp.edges = Null)
        THEN Reject(w0, "TypeError")
      ELSE
        LET edges == IF resp.edges = Null THEN <<>> ELSE resp.edges[1]
            w1    == [w0 EXCEPT !.repos = AddEdges(@, edges)]
        IN  IF variant = "orgs" /\ resp.pageInfo = Null THEN Reject(w1, "TypeError")
            ELSE
              LET pageInfo == IF resp.pageInfo = Null THEN DefaultPageInfo
                              ELSE resp.pageInfo[1]
              IN  IF HasNextPage(pageInfo) THEN NextPage(w1, pageInfo)
                  ELSE AfterPages(w1)

\* Mutant of OnGistResponse: the gist request is not inside a try.
OnGistResponseUncaught(w, resp) ==
  LET w0 == [w EXCEPT !.resps = Append(@, [shape |-> IF resp.ok THEN "gists" ELSE "error",
                                            edges |-> Some(resp.gists),
                                            pageInfo |-> Null])]
  IN  IF resp.ok THEN RecordAccount([w0 EXCEPT !.gists = @ \o resp.gists])
      ELSE Reject(w0, "RequestFailed")

\* The continuation of `await axiosClient.get("/users/<user>/gists")`, with
\* its catch.
OnGistResponse(w, resp) ==
  LET w0 == [w EXCEPT !.resps = Append(@, [shape |-> IF resp.ok THEN "gists" ELSE "error",
                                            edges |-> Some(resp.gists),
                                            pageInfo |-> Null])]
  IN  RecordAccount(IF resp.ok THEN [w0 EXCEPT !.gists = @ \o resp.gists] ELSE w0)

\* Page requests issued so far for account u in walk w.
PageReqsOf(w, u) ==
  Cardinality({k \in 1..Len(w.reqs) : w.reqs[k].kind = "page" /\ w.reqs[k].user = u})


\* ------------------------------------------------------------ the results
\* Array.prototype.sort with (a, b) => (a.name > b.name ? 1 : -1), as an
\* insertion sort.  The comparator never answers 0; items with equal keys are
\* equal in every field in the values modelled here, so their order does not show.
RECURSIVE InsertByName(_, _)
InsertByName(x, sorted) ==
  IF sorted = <<>> THEN <<x>>
  ELSE IF StrGt(x.name, Head(sorted).name)
    THEN <<Head(sorted)>> \o InsertByName(x, Tail(sorted))
  ELSE <<x>> \o sorted

RECURSIVE SortByName(_)
SortByName(seq) ==
  IF seq = <<>> THEN <<>> ELSE InsertByName(Head(seq), SortByName(Tail(seq)))

\* The same with (a, b) => (a.updated_at > b.updated_at ? 1 : -1).
RECURSIVE InsertByUpdated(_, _)
InsertByUpdated(x, sorted) ==
  IF sorted = <<>> THEN <<x>>
  ELSE IF x.updated_at > Head(sorted).updated_at
    THEN <<Head(sorted)>> \o InsertByUpdated(x, Tail(sorted))
  ELSE <<x>> \o sorted

RECURSIVE SortByUpdated(_)
SortByUpdated(seq) ==
  IF seq = <<>> THEN <<>> ELSE InsertByUpdated(Head(seq), SortByUpdated(Tail(seq)))

\* s && fuzzyIncludes(s, q) for an optional string (users variants); the orgs
\* variant calls fuzzyIncludes(s, q) on the description as it is, and
\* fuzzyIncludes answers false for null.
Matches(opt, q) == opt # Null /\ opt[1] # <<>> /\ fuzzyIncludes(opt[1], q)
MatchesOrg(opt, q) == opt # Null /\ fuzzyIncludes(opt[1], q)

\* Mutant of RepoKept: archived and forked repositories are not excluded.
RepoKeptWhateverFlags(r, q) ==
  IF variant = "orgs"
    THEN MatchesOrg(r.description, q) \/ MatchesOrg(Some(r.name), q)
    ELSE Matches(r.description, q) \/ Matches(Some(r.name), q)

RepoKept(r, q) ==
  /\ ~r.isArchived
  /\ ~r.isFork
  /\ IF variant = "orgs"
       THEN MatchesOrg(r.description, q) \/ MatchesOrg(Some(r.name), q)
       ELSE Matches(r.description, q) \/ Matches(Some(r.name), q)

\* r.description?.replace(/ *:[a-z-]+: */g, "") || undefined
RepoSnippet(r) ==
  IF r.description = Null \/ StripShortcodes(r.description[1]) = <<>> THEN Null
  ELSE Some(StripShortcodes(r.description[1]))

RepoResult(user, r) ==
  [kind |-> "Repo", user |-> user, name |-> r.name, snippet |-> RepoSnippet(r),
   url |-> [host |-> "github.com", path |-> <<user, r.name>>], modified |-> Null]

RepoResults(user, repos, q) ==
  LET kept   == SelectSeq(repos, LAMBDA r : RepoKept(r, q))
      sorted == SortByName(kept)
  IN  [k \in 1..Len(sorted) |-> RepoResult(user, sorted[k])]

GistResult(user, g) ==
  [kind |-> "Gist", user |-> user, name |-> <<g.id>>,
   snippet |-> IF g.description = Null \/ g.description[1] = <<>> THEN Null
               ELSE g.description,
   url |-> g.html_url, modified |-> Null]

GistResults(user, gists, q) ==
  LET kept   == SelectSeq(gists, LAMBDA g : Matches(g.description, q))
      sorted == SortByUpdated(kept)
  IN  [k \in 1..Len(sorted) |-> GistResult(user, sorted[k])]

\* item.html_url.match(/github\.com\/([^\/]+\/[^\/]+)/)?.[1]
OwnerRepo(url) ==
  IF url.host \in {"github.com", "gist.github.com"} /\ Len(url.path) >= 2
    THEN Some(<<url.path[1], url.path[2]>>)
    ELSE Null

\* util.getUnixTime(item.updated_at): timestamps are kept in seconds.
getUnixTime(t) == t

LiveResult(user, item) ==
  [kind |-> IF item.pull_request THEN "PR" ELSE "Issue", user |-> user,
   name |-> item.title,
   snippet |-> IF item.body = Null \/ item.body[1] = <<>> THEN Null
               ELSE Some(<<"<blockquote>">> \o item.body[1] \o <<"</blockquote>">>),
   url |-> item.html_url, modified |-> Some(getUnixTime(item.updated_at))]

LiveResults(user, items) == [k \in 1..Len(items) |-> LiveResult(user, items[k])]

\* /\b(is|author|user):\w/.test(q), with the scope word of the variant.
ScopeWord == IF variant = "orgs" THEN <<"o","r","g">> ELSE <<"u","s","e","r">>

HasQualifier(q, words) ==
  \E k \in 1..Len(q) : \E wd \in words :
     /\ k = 1 \/ ~IsWordChar(q[k - 1])
     /\ StartsWithAt(q, k, wd \o <<":">>)
     /\ k + Len(wd) + 1 <= Len(q)
     /\ IsWordChar(q[k + Len(wd) + 1])

\* Mutant of ScopedQuery: the raw query is quoted without escapeQuotes.
ScopedQueryUnescaped(user, q) ==
  LET scope == ScopeWord \o <<":">> \o Chars(user)
  IN  IF HasQualifier(q, {<<"i","s">>, <<"a","u","t","h","o","r">>, ScopeWord})
        THEN IF HasQualifier(q, {ScopeWord}) THEN q
             ELSE scope \o <<" ">> \o q
        ELSE scope \o <<" ", "\"">> \o q \o <<"\"">>

\* The q parameter of GET /search/issues.
ScopedQuery(user, q) ==
  LET scope == ScopeWord \o <<":">> \o Chars(user)
  IN  IF HasQualifier(q, {<<"i","s">>, <<"a","u","t","h","o","r">>, ScopeWord})
        THEN IF HasQualifier(q, {ScopeWord}) THEN q
             ELSE scope \o <<" ">> \o q
        ELSE scope \o <<" ", "\"">> \o escapeQuotes(q) \o <<"\"">>

\* The accounts a query sent to /search/issues restricts the search to: the
\* values of its user: (org:) qualifiers, each running up to the next space.
ScopesIn(sent) ==
  { SubSeq(sent, k + Len(ScopeWord) + 1,
           k + Len(ScopeWord) + RunLen(sent, k + Len(ScopeWord) + 1,
                                       Range(Alphabet) \ Spaces)) :
      k \in { j \in 1..Len(sent) :
                /\ j = 1 \/ ~IsWordChar(sent[j - 1])
                /\ StartsWithAt(sent, j, ScopeWord \o <<":">>)
                /\ j + Len(ScopeWord) + 1 <= Len(sent)
                /\ IsWordChar(sent[j + Len(ScopeWord) + 1]) } }

\* What the upstream answers to a query: the request fails, or the items are
\* those of the repositories of the accounts the query is restricted to.
ScopedResponses(sent) ==
  { [ok |-> FALSE, items |-> <<>>],
    [ok |-> TRUE,
     items |-> (IF Chars("alice") \in ScopesIn(sent) THEN <<HitA>> ELSE <<>>)
               \o (IF Chars("bob") \in ScopesIn(sent) THEN <<HitB>> ELSE <<>>)] }


\* ------------------------------------------------------ the state machine
NoData == [ok |-> FALSE, map |-> EmptyMap, error |-> ""]
NoWalks == [x \in {} |-> 0]

\* What a call of search holds from its start: the array its `for ... of users`
\* iterates, and the number of the init whose client and fetcher passed the
\* guard (init k creates client k and fetcher k).
NotStarted == [users |-> <<>>, config |-> 0]

Init ==
  /\ variant \in Variants
  /\ client = Null
  /\ getRepos = Null
  /\ users = Null
  /\ inflight = 0
  /\ walkCount = 0
  /\ walks = NoWalks
  /\ lastWalk = Null
  /\ pc = [s \in Searches |-> "idle"]
  /\ query = [s \in Searches |-> <<>>]
  /\ started = [s \in Searches |-> NotStarted]
  /\ idx = [s \in Searches |-> 0]
  /\ results = [s \in Searches |-> <<>>]
  /\ awaiting = [s \in Searches |-> 0]
  /\ data = [s \in Searches |-> NoData]
  /\ err = [s \in Searches |-> ""]
  /\ liveReqs = [s \in Searches |-> <<>>]

\* Mutant of Initialized: the guard is missing.
InitializedUnchecked == TRUE

\* if (!(client && getReposAndGists && users)) throw Error("Engine not initialized")
Initialized == client # Null /\ getRepos # Null /\ users # Null

\* A continuation of a settled promise runs before any further event is taken.
NoMicrotask == \A s \in Searches : pc[s] # "dataReady"

\* Mutant of Collapses: every call starts a run of the producer.
NeverCollapses == FALSE

\* util.rateLimit: a call made while a run of the producer is in flight gets the
\* promise of that run; any other call starts a run.
Collapses == inflight # 0

\* What a settled walk hands to the searches that await it.
Delivered(w) == [ok |-> w.status = "resolved", map |-> w.dataByUser, error |-> w.error]

\* The number of calls of init so far.
Inits == IF client = Null THEN 0 ELSE client[1]

\* init({ usernames | organizations, origin, token }): a new client, a new
\* memoized fetcher (with nothing in flight) over the new list, the new list.
Configure ==
  /\ NoMicrotask
  /\ \E usernames \in UserLists :
       /\ client' = Some(Inits + 1)
       /\ getRepos' = Some([usernames |-> usernames, config |-> Inits + 1])
       /\ users' = Some(usernames)
  /\ inflight' = 0
  /\ lastWalk' = Null
  /\ UNCHANGED <<variant, walkCount, walks, pc, query, started, idx, results,
                 awaiting, data, err, liveReqs>>

\* The first call of init.
InitEngine == users = Null /\ Configure

\* A further call of init, at any time after the first.
ReInit == users # Null /\ Inits < MaxInits /\ Configure

\* The top of the loop `for (const user of users)` for the i-th account with
\* the results so far: `return results` after the last account, otherwise
\* `await getReposAndGists()`, which starts a walk unless one is in flight.
\* list is the array the loop iterates; the fetcher is the one the module
\* variable holds when the iteration starts.
EnterIteration(s, i, res, list) ==
  /\ idx' = [idx EXCEPT ![s] = i]
  /\ results' = [results EXCEPT ![s] = res]
  /\ IF i > Len(list)
       THEN /\ pc' = [pc EXCEPT ![s] = "done"]
            /\ awaiting' = [awaiting EXCEPT ![s] = 0]
            /\ data' = [data EXCEPT ![s] = NoData]
            /\ lastWalk' = Null
            /\ UNCHANGED <<inflight, walkCount, walks>>
       ELSE IF Collapses
         THEN /\ pc' = [pc EXCEPT ![s] = "awaitData"]
              /\ awaiting' = [awaiting EXCEPT ![s] = inflight]
              /\ data' = [data EXCEPT ![s] = NoData]
              /\ lastWalk' = Null
              /\ UNCHANGED <<inflight, walkCount, walks>>
         ELSE LET id == walkCount + 1
                  w  == NewWalk(id, getRepos[1].usernames)
              IN  /\ walkCount' = id
                  /\ awaiting' = [awaiting EXCEPT ![s] = id]
                  /\ IF w.status = "running"
                       THEN /\ walks' = [x \in DOMAIN walks \cup {id} |->
                                           IF x = id THEN w ELSE walks[x]]
                            /\ inflight' = id
                            /\ pc' = [pc EXCEPT ![s] = "awaitData"]
                            /\ data' = [data EXCEPT ![s] = NoData]
                            /\ lastWalk' = Null
                       ELSE /\ lastWalk' = Some(w)
                            /\ pc' = [pc EXCEPT ![s] = "dataReady"]
                            /\ data' = [data EXCEPT ![s] = Delivered(w)]
                            /\ UNCHANGED <<walks, inflight>>

\* search(q), up to its first await, for q one of qs.  The calls are numbered
\* in the order in which they are made.
SearchCallFrom(s, qs) ==
  /\ pc[s] = "idle"
  /\ \A t \in Searches : t < s => pc[t] # "idle"
  /\ NoMicrotask
  /\ \E q \in qs : query' = [query EXCEPT ![s] = q]
  /\ IF ~Initialized
       THEN /\ pc' = [pc EXCEPT ![s] = "failed"]
            /\ err' = [err EXCEPT ![s] = "Engine not initialized"]
            /\ lastWalk' = Null
            /\ UNCHANGED <<started, idx, results, awaiting, data, inflight,
                           walkCount, walks>>
       ELSE IF users = Null
         \* `for (const user of undefined)` throws.
         THEN /\ pc' = [pc EXCEPT ![s] = "failed"]
              /\ err' = [err EXCEPT ![s] = "TypeError"]
              /\ lastWalk' = Null
              /\ UNCHANGED <<started, idx, results, awaiting, data, inflight,
                             walkCount, walks>>
         ELSE /\ started' = [started EXCEPT ![s] =
                               [users |-> users[1], config |-> client[1]]]
              /\ EnterIteration(s, 1, <<>>, users[1])
              /\ UNCHANGED err
  /\ UNCHANGED <<variant, client, getRepos, users, liveReqs>>

SearchCall(s) == SearchCallFrom(s, Queries)
SearchCallWide(s) == SearchCallFrom(s, WideQueries)

\* The end of a walk (lastWalk keeps the walk that ended in the step just
\* taken, for the properties to read): the promise of the run settles, the memoizer forgets the
\* run, and every search that awaits it has its continuation queued.
Settle(id, w) ==
  /\ walks' = [x \in DOMAIN walks \ {id} |-> walks[x]]
  /\ lastWalk' = Some(w)
  /\ inflight' = IF inflight = id THEN 0 ELSE inflight
  /\ pc' = [s \in Searches |->
              IF pc[s] = "awaitData" /\ awaiting[s] = id THEN "dataReady" ELSE pc[s]]
  /\ data' = [s \in Searches |->
              IF pc[s] = "awaitData" /\ awaiting[s] = id THEN Delivered(w) ELSE data[s]]

Advance(id, w) ==
  IF w.status = "running"
    THEN /\ walks' = [walks EXCEPT ![id] = w]
         /\ lastWalk' = Null
         /\ UNCHANGED <<inflight, pc, data>>
    ELSE Settle(id, w)

\* A response (or failure) of POST /graphql, one of pages, arrives for walk id.
PageResponseOf(id, pages) ==
  /\ NoMicrotask
  /\ walks[id].phase = "page"
  /\ \E resp \in pages : Advance(id, OnPageResponse(walks[id], resp))
  /\ UNCHANGED <<variant, client, getRepos, users, walkCount, query, started, idx,
                 results, awaiting, err, liveReqs>>

PageResponseFrom(id, rich) ==
  LET k == PageReqsOf(walks[id], CurrentUser(walks[id]))
  IN  PageResponseOf(id, IF rich THEN RichPages(k, k < MaxPages) ELSE LeanPages)

PageResponse(id) == PageResponseFrom(id, FALSE)
PageResponseRich(id) == PageResponseFrom(id, TRUE)
PageResponseWide(id) == PageResponseOf(id, WidePages)

\* A response (or failure) of GET /users/<user>/gists, one of resps, arrives
\* for walk id.
GistResponseFrom(id, resps) ==
  /\ NoMicrotask
  /\ walks[id].phase = "gist"
  /\ \E resp \in resps : Advance(id, OnGistResponse(walks[id], resp))
  /\ UNCHANGED <<variant, client, getRepos, users, walkCount, query, started, idx,
                 results, awaiting, err, liveReqs>>

GistResponse(id) == GistResponseFrom(id, GistResponses)
GistResponseWide(id) == GistResponseFrom(id, WideGistsOf(CurrentUser(walks[id])))

Entry(map, user) ==
  IF user \in DOMAIN map THEN map[user] ELSE [repos |-> <<>>, gists |-> <<>>]

\* The `continue` of the users variants: no entry, or an empty one.
SkipsAccount(map, user) ==
  CASE variant = "gists" ->
         \/ user \notin DOMAIN map
         \/ (Len(map[user].repos) = 0 /\ Len(map[user].gists) = 0)
    [] variant = "users" -> Len(Entry(map, user).repos) = 0
    [] OTHER -> FALSE

\* Mutant of CollectionResults: the gist group is pushed before the repo group.
CollectionResultsGistsFirst(user, entry, q) ==
  (IF variant = "gists" THEN GistResults(user, entry.gists, q) ELSE <<>>)
  \o RepoResults(user, entry.repos, q)

CollectionResults(user, entry, q) ==
  RepoResults(user, entry.repos, q)
  \o (IF variant = "gists" THEN GistResults(user, entry.gists, q) ELSE <<>>)

\* The continuation of `await getReposAndGists()`: the rejection of the walk
\* leaves search; otherwise the account is skipped, or its repositories and
\* gists are pushed and the live search is requested.
ResumeData(s) ==
  /\ pc[s] = "dataReady"
  /\ IF ~data[s].ok
       THEN /\ pc' = [pc EXCEPT ![s] = "failed"]
            /\ err' = [err EXCEPT ![s] = data[s].error]
            /\ results' = [results EXCEPT ![s] = <<>>]
            /\ data' = [data EXCEPT ![s] = NoData]
            /\ awaiting' = [awaiting EXCEPT ![s] = 0]
            /\ lastWalk' = Null
            /\ UNCHANGED <<idx, inflight, walkCount, walks, liveReqs>>
       ELSE LET user == started[s].users[idx[s]]
            IN  IF SkipsAccount(data[s].map, user)
                  THEN /\ EnterIteration(s, idx[s] + 1, results[s], started[s].users)
                       /\ UNCHANGED <<err, liveReqs>>
                  ELSE /\ pc' = [pc EXCEPT ![s] = "awaitLive"]
                       /\ results' = [results EXCEPT ![s] =
                            @ \o CollectionResults(user, Entry(data[s].map, user), query[s])]
                       /\ liveReqs' = [liveReqs EXCEPT ![s] =
                            Append(@, [user |-> user, q |-> ScopedQuery(user, query[s]),
                                       client |-> client[1], answer |-> "pending"])]
                       /\ data' = [data EXCEPT ![s] = NoData]
                       /\ awaiting' = [awaiting EXCEPT ![s] = 0]
                       /\ lastWalk' = Null
                       /\ UNCHANGED <<idx, err, inflight, walkCount, walks>>
  /\ UNCHANGED <<variant, client, getRepos, users, query, started>>

\* Mutant of CatchesLiveFailure: the live search is not inside a try.
LiveFailureEscapes == FALSE

\* try { ... await client.get("/search/issues", ...) ... } catch (error) { log }
CatchesLiveFailure == TRUE

\* The continuation of `await client.get("/search/issues", ...)` with its catch,
\* then the next turn of the loop; resps are the answers the upstream can give.
\* liveReqs, the log of the live requests of the search, notes the outcome.
LiveResponseFrom(s, resps) ==
  /\ pc[s] = "awaitLive"
  /\ NoMicrotask
  /\ \E resp \in resps :
       /\ IF resp.ok \/ CatchesLiveFailure
           THEN /\ EnterIteration(s, idx[s] + 1,
                     IF resp.ok
                       THEN results[s] \o LiveResults(started[s].users[idx[s]], resp.items)
                       ELSE results[s],
                     started[s].users)
                /\ UNCHANGED err
           ELSE /\ pc' = [pc EXCEPT ![s] = "failed"]
                /\ err' = [err EXCEPT ![s] = "LiveSearchFailed"]
                /\ results' = [results EXCEPT ![s] = <<>>]
                /\ lastWalk' = Null
                /\ UNCHANGED <<idx, awaiting, data, inflight, walkCount, walks>>
       /\ liveReqs' = [liveReqs EXCEPT ![s][Len(liveReqs[s])].answer =
                         IF resp.ok THEN "ok" ELSE "failed"]
  /\ UNCHANGED <<variant, client, getRepos, users, query, started>>

LiveResponse(s) == LiveResponseFrom(s, LiveResponses)

\* The same with an upstream that answers the query it was sent.
LiveResponseScoped(s) ==
  LiveResponseFrom(s, ScopedResponses(liveReqs[s][Len(liveReqs[s])].q))

Next ==
  \/ InitEngine
  \/ \E s \in Searches : SearchCall(s)
  \/ \E s \in Searches : ResumeData(s)
  \/ \E s \in Searches : LiveResponse(s)
  \/ \E id \in DOMAIN walks : PageResponse(id)
  \/ \E id \in DOMAIN walks : GistResponse(id)

Spec == Init /\ [][Next]_vars

\* The first walk of an engine, from init to the end of the walk, over the
\* larger choice of responses.
NextWalk ==
  \/ InitEngine
  \/ walkCount = 0 /\ SearchCall(1)
  \/ \E id \in DOMAIN walks : PageResponseRich(id)
  \/ \E id \in DOMAIN walks : GistResponse(id)

SpecWalk == Init /\ [][NextWalk]_vars

\* One search of an engine, over the wider choice of queries and responses.
NextSearch ==
  \/ InitEngine
  \/ SearchCallWide(1)
  \/ ResumeData(1)
  \/ LiveResponseScoped(1)
  \/ \E id \in DOMAIN walks : PageResponseWide(id)
  \/ \E id \in DOMAIN walks : GistResponseWide(id)

SpecSearch == Init /\ [][NextSearch]_vars

\* One search of an engine whose init is called again while the search runs.
NextReinit ==
  \/ InitEngine
  \/ ReInit
  \/ SearchCall(1)
  \/ ResumeData(1)
  \/ LiveResponse(1)
  \/ \E id \in DOMAIN walks : PageResponse(id)
  \/ \E id \in DOMAIN walks : GistResponse(id)

SpecReinit == Init /\ [][NextReinit]_vars


\* ------------------------------------------------------------ properties
\* The walks in flight and the walk that ended in the step just taken.
AllWalks ==
  {walks[id] : id \in DOMAIN walks} \cup (IF lastWalk = Null THEN {} ELSE {lastWalk[1]})

\* The positions in the request log of walk w of the page requests for account u.
PageIdxs(w, u) ==
  SelectSeq([k \in 1..Len(w.reqs) |-> k],
            LAMBDA k : w.reqs[k].kind = "page" /\ w.reqs[k].user = u)

\* The page requests issued for account u, and the responses processed for them.
PageReqs(w, u) == [j \in 1..Len(PageIdxs(w, u)) |-> w.reqs[PageIdxs(w, u)[j]]]
PageResps(w, u) ==
  LET ix == SelectSeq(PageIdxs(w, u), LAMBDA k : k <= Len(w.resps))
  IN  [j \in 1..Len(ix) |-> w.resps[ix[j]]]

\* The items of the pages processed for account u, in order.
RECURSIVE ItemsOf(_)
ItemsOf(rs) ==
  IF rs = <<>> THEN <<>>
  ELSE (IF Head(rs).shape = "ok" /\ Head(rs).edges # Null THEN Head(rs).edges[1] ELSE <<>>)
       \o ItemsOf(Tail(rs))

\* The walk is still at account u, in its page loop.
AtPagesOf(w, u) == w.i >= 1 /\ CurrentUser(w) = u /\ w.phase = "page"

HasFlag(r) == r.shape = "ok" /\ r.pageInfo # Null

\* C1: at any time at most one walk of the collection is running; every search
\* that waits for the collection waits for that one walk, a call made while it is
\* in flight having started no other; and the searches whose wait ended together
\* hold the result of the same walk.
C1_SingleFlight ==
  /\ Cardinality(DOMAIN walks) <= 1
  /\ \A s \in Searches :
       pc[s] = "awaitData" => awaiting[s] = inflight /\ inflight \in DOMAIN walks
  /\ \A s, t \in Searches :
       pc[s] = "dataReady" /\ pc[t] = "dataReady"
         => awaiting[s] = awaiting[t] /\ data[s] = data[t]
  /\ \A s \in Searches :
       pc[s] = "dataReady" /\ lastWalk # Null /\ lastWalk[1].id = awaiting[s]
         => data[s] = Delivered(lastWalk[1])

\* Two searches overlapped on the first walk and both hold its result.
C1_Witness ==
  /\ walkCount = 1
  /\ lastWalk # Null
  /\ \E s, t \in Searches :
       s # t /\ pc[s] = "dataReady" /\ pc[t] = "dataReady" /\ data[s].ok

\* C2: a search fails only with the not-initialized error.
C2_OnlyNotInitializedEscapes ==
  \A s \in Searches : pc[s] = "failed" => err[s] = "Engine not initialized"

\* C3: a search called before init fails with "Engine not initialized", issues no
\* upstream request (no walk starts, no live search is requested) and has no
\* results.
C3_NotInitialized ==
  [][\A s \in Searches :
       (pc[s] = "idle" /\ pc'[s] # "idle" /\ users = Null)
         => /\ pc'[s] = "failed"
            /\ err'[s] = "Engine not initialized"
            /\ results'[s] = <<>>
            /\ liveReqs'[s] = <<>>
            /\ walks' = walks
            /\ walkCount' = walkCount]_vars

C3_Witness ==
  /\ users = Null
  /\ \E s \in Searches : pc[s] = "failed" /\ err[s] = "Engine not initialized"

\* C4: a completed search has issued exactly one live issue search for each
\* configured account, in the order of the list.
C4_LiveSearchPerAccount ==
  \A s \in Searches :
    pc[s] = "done" => [k \in 1..Len(liveReqs[s]) |-> liveReqs[s][k].user] = users[1]

\* C5: when the page responses of an account carry hasNextPage true on the first
\* n-1 pages and false on page n, exactly n page requests are issued for it; and
\* while every page so far said true, the next page has been requested.
C5_PageCount ==
  \A w \in AllWalks : \A u \in Range(w.usernames) :
    LET rs == PageResps(w, u)
        n  == Len(rs)
    IN  (n >= 1 /\ \A j \in 1..n : HasFlag(rs[j]))
          => /\ ( /\ \A j \in 1..(n - 1) : rs[j].pageInfo[1].hasNextPage
                  /\ ~rs[n].pageInfo[1].hasNextPage )
                  => Len(PageReqs(w, u)) = n
             /\ ( /\ \A j \in 1..n : rs[j].pageInfo[1].hasNextPage
                  /\ w.status = "running" )
                  => Len(PageReqs(w, u)) = n + 1

\* The walk of a first account took two pages and went on to the second account.
C5_Witness ==
  \E w \in AllWalks :
    /\ Len(w.usernames) = 2
    /\ w.i = 2
    /\ Len(PageResps(w, w.usernames[1])) = 2
    /\ PageResps(w, w.usernames[1])[1].pageInfo[1].hasNextPage
    /\ Len(PageReqs(w, w.usernames[1])) = 2

\* C6: the first page request of every account carries no cursor, and request
\* k+1 of an account carries the endCursor of the response to its request k.
C6_CursorChain ==
  \A w \in AllWalks : \A u \in Range(w.usernames) :
    LET rq == PageReqs(w, u)
        rs == PageResps(w, u)
    IN  /\ Len(rq) >= 1 => rq[1].cursor = NoCursor
        /\ \A k \in 1..(Len(rq) - 1) :
             /\ HasFlag(rs[k])
             /\ rq[k + 1].cursor = rs[k].pageInfo[1].endCursor

\* The second account is asked for its first page after the first account's
\* second page was asked with the cursor of its first.
C6_Witness ==
  \E w \in AllWalks :
    /\ Len(w.usernames) = 2
    /\ Len(PageReqs(w, w.usernames[1])) = 2
    /\ PageReqs(w, w.usernames[1])[2].cursor = CursorNames[1]
    /\ Len(PageReqs(w, w.usernames[2])) = 1


\* C7: the set recorded for an account holds the items of all its pages, and
\* items equal in every field are in it once.
C7_ValueDedup ==
  \A w \in AllWalks : \A u \in DOMAIN w.dataByUser :
    LET rec == w.dataByUser[u].repos
    IN  /\ Range(rec) = Range(ItemsOf(PageResps(w, u)))
        /\ \A j, k \in 1..Len(rec) : j # k => rec[j] # rec[k]

\* The part of C7 the code keeps: the recorded set has one member for every
\* item object the pages returned, equal or not.
C7_EveryObjectOnce ==
  \A w \in AllWalks : \A u \in DOMAIN w.dataByUser :
    w.dataByUser[u].repos = ItemsOf(PageResps(w, u))

\* What C8 and C9 ask after the last page response rs[n] processed for account
\* u: no further page request, no error, the account recorded with the items of
\* its pages (in the gists variant once its gist request is answered), and the
\* next account walked.
StopsQuietly(w, u) ==
  LET rs == PageResps(w, u)
      k  == CHOOSE j \in 1..Len(w.usernames) : w.usernames[j] = u
  IN  /\ Len(PageReqs(w, u)) = Len(rs)
      /\ ~(w.status = "rejected" /\ AtPagesOf(w, u))
      /\ u \in DOMAIN w.dataByUser \/ (w.phase = "gist" /\ CurrentUser(w) = u)
      /\ u \in DOMAIN w.dataByUser => w.dataByUser[u].repos = ItemsOf(rs)
      /\ (u \in DOMAIN w.dataByUser /\ k < Len(w.usernames))
           => Len(PageReqs(w, w.usernames[k + 1])) >= 1

\* C8: a page response without the owner or without its repositories ends the
\* account's walk quietly, whatever the page, and the next account is walked.
C8_MissingDataStops ==
  \A w \in AllWalks : \A u \in Range(w.usernames) :
    LET rs == PageResps(w, u)
    IN  (Len(rs) >= 1 /\ rs[Len(rs)].shape \in {"noOwner", "noRepositories"})
          => StopsQuietly(w, u)

\* C8 as far as the code keeps it: in the users variants, and in the orgs
\* variant when it is the owner that is missing.
C8_WhereChecked ==
  \A w \in AllWalks : \A u \in Range(w.usernames) :
    LET rs == PageResps(w, u)
    IN  ( /\ Len(rs) >= 1
          /\ rs[Len(rs)].shape \in {"noOwner", "noRepositories"}
          /\ variant = "orgs" => rs[Len(rs)].shape = "noOwner" )
          => StopsQuietly(w, u)

\* C9: a page response with repositories but no pageInfo is the last page: its
\* items are added, no further page is requested, no error is raised.
C9_NoPageInfoIsLastPage ==
  \A w \in AllWalks : \A u \in Range(w.usernames) :
    LET rs == PageResps(w, u)
    IN  (Len(rs) >= 1 /\ rs[Len(rs)].shape = "ok" /\ rs[Len(rs)].pageInfo = Null)
          => StopsQuietly(w, u)

\* C9 in the users variants, which default pageInfo.
C9_UsersVariants ==
  variant # "orgs" => C9_NoPageInfoIsLastPage

\* C10: the map a search receives has an entry for every configured account,
\* comes from a walk that has ended, and holds for each account the items of all
\* the pages that walk processed for it.
C10_CompleteWalkObserved ==
  \A s \in Searches :
    (pc[s] = "dataReady" /\ data[s].ok)
      => /\ DOMAIN data[s].map = Range(users[1])
         /\ awaiting[s] \notin DOMAIN walks
         /\ (lastWalk # Null /\ lastWalk[1].id = awaiting[s])
              => \A u \in Range(users[1]) :
                   data[s].map[u].repos = ItemsOf(PageResps(lastWalk[1], u))

\* A search receives the map of a walk over two accounts.
C10_Witness ==
  \E s \in Searches :
    /\ pc[s] = "dataReady"
    /\ data[s].ok
    /\ Cardinality(DOMAIN data[s].map) = 2
    /\ lastWalk # Null


\* The last live request of search s.
LastLive(s) == liveReqs[s][Len(liveReqs[s])]

\* C11: when the live search of an account fails, the search does not fail, its
\* results stay as they were after the account's repositories and gists were
\* added (no live result is added), and the loop goes on to the next account:
\* the collection is awaited for it, or the search returns after the last one.
C11_LiveFailureIsolated ==
  [][\A s \in Searches :
       (pc[s] = "awaitLive" /\ pc'[s] # "awaitLive" /\ LastLive(s)'.answer = "failed")
         => /\ pc'[s] # "failed"
            /\ err'[s] = err[s]
            /\ results'[s] = results[s]
            /\ idx'[s] = idx[s] + 1
            /\ idx[s] < Len(started[s].users)
                 => pc'[s] \in {"awaitData", "dataReady"} /\ awaiting'[s] # 0
            /\ idx[s] = Len(started[s].users) => pc'[s] = "done"]_vars

\* A search over two accounts returned: the live search of the first failed, its
\* repository is in the results without any live result of it, and the second
\* account has its repository and its live result there.
C11_Witness ==
  \E s \in Searches :
    /\ pc[s] = "done"
    /\ Len(liveReqs[s]) = 2
    /\ liveReqs[s][1].answer = "failed"
    /\ liveReqs[s][2].answer = "ok"
    /\ \E k \in 1..Len(results[s]) :
         results[s][k].user = liveReqs[s][1].user /\ results[s][k].kind = "Repo"
    /\ ~\E k \in 1..Len(results[s]) :
         results[s][k].user = liveReqs[s][1].user /\ results[s][k].kind \in {"Issue", "PR"}
    /\ \E k \in 1..Len(results[s]) :
         results[s][k].user = liveReqs[s][2].user /\ results[s][k].kind = "Repo"
    /\ \E k \in 1..Len(results[s]) :
         results[s][k].user = liveReqs[s][2].user /\ results[s][k].kind \in {"Issue", "PR"}


\* The results a step of search s adds, and those of one kind among them.
Added(s) == SubSeq(results'[s], Len(results[s]) + 1, Len(results'[s]))
OfKind(rs, kinds) == SelectSeq(rs, LAMBDA r : r.kind \in kinds)
Names(rs) == {rs[k].name : k \in 1..Len(rs)}

\* What C12 asks of a cached item for the query.
Wanted(r, q) ==
  /\ ~r.isArchived
  /\ ~r.isFork
  /\ \/ fuzzyIncludes(r.name, q)
     \/ r.description # Null /\ fuzzyIncludes(r.description[1], q)

\* C12: when a search takes the collection for an account, the Repo results it
\* adds are those of exactly the cached items of the account that are neither
\* archived nor forked and whose name or description matches the query, one
\* result per item; an item without description raises no error.
C12_RepoFilter ==
  [][\A s \in Searches :
       (pc[s] = "dataReady" /\ data[s].ok /\ pc'[s] # "dataReady")
         => LET user   == started[s].users[idx[s]]
                cached == Entry(data[s].map, user).repos
                want   == SelectSeq(cached, LAMBDA r : Wanted(r, query[s]))
                repos  == OfKind(Added(s), {"Repo"})
            IN  /\ pc'[s] # "failed"
                /\ Len(repos) = Len(want)
                /\ Names(repos) = Names(want)
                /\ \A k \in 1..Len(repos) : repos[k].user = user]_vars

\* The query "cli" over a cache with an archived and a forked match: the
\* results of the account are the item matching by name, which has no
\* description, and the item matching by description.
C12_Witness ==
  \E s \in Searches :
    /\ pc[s] = "awaitLive"
    /\ query[s] = <<"c","l","i">>
    /\ Names(OfKind(results[s], {"Repo"})) = {RepoC.name, RepoA.name}
    /\ \E k \in 1..Len(results[s]) :
         results[s][k].name = RepoC.name /\ results[s][k].snippet = Null


\* The raw query q contains the qualifier word: the word and a colon, at the
\* start of the query or after a character that is no word character, with a
\* word character after the colon.
ContainsQualifier(q, word) ==
  \E k \in 1..Len(q) :
    /\ k + Len(word) + 1 <= Len(q)
    /\ \A j \in 1..Len(word) : q[k + j - 1] = word[j]
    /\ q[k + Len(word)] = ":"
    /\ IsWordChar(q[k + Len(word) + 1])
    /\ k > 1 => ~IsWordChar(q[k - 1])

\* The scope qualifier of account a: user:a, or org:a in the orgs variant.
ScopeOf(a) == (IF variant = "orgs" THEN <<"o","r","g",":">> ELSE <<"u","s","e","r",":">>)
              \o Chars(a)

\* C13: the query sent for account A is the raw query when it has a qualifier
\* and the scope qualifier; the scope qualifier of A, a space and the raw query
\* when it has a qualifier but not the scope; otherwise the scope qualifier of
\* A, a space and the raw query in double quotes with its quotes escaped.
C13_ScopedQueryCases ==
  \A s \in Searches : \A k \in 1..Len(liveReqs[s]) :
    LET raw      == query[s]
        a        == liveReqs[s][k].user
        scoped   == ContainsQualifier(raw, IF variant = "orgs" THEN <<"o","r","g">>
                                           ELSE <<"u","s","e","r">>)
        hasQual  == \/ ContainsQualifier(raw, <<"i","s">>)
                    \/ ContainsQualifier(raw, <<"a","u","t","h","o","r">>)
                    \/ scoped
    IN  liveReqs[s][k].q =
          IF hasQual /\ scoped THEN raw
          ELSE IF hasQual THEN ScopeOf(a) \o <<" ">> \o raw
          ELSE ScopeOf(a) \o <<" ", "\"">> \o escapeQuotes(raw) \o <<"\"">>

\* The query a"b was sent for alice as user:alice "a\"b" (org: in the orgs
\* variant).
C13_Witness ==
  \E s \in Searches :
    /\ query[s] = <<"a","\"","b">>
    /\ Len(liveReqs[s]) >= 1
    /\ liveReqs[s][1].user = "alice"
    /\ liveReqs[s][1].q = ScopeOf("alice") \o <<" ","\"","a","\\","\"","b","\"">>


\* C14: every live request made while account A is processed restricts the
\* search to A and to no other account.
C14_ScopedToAccount ==
  \A s \in Searches : \A k \in 1..Len(liveReqs[s]) :
    ScopesIn(liveReqs[s][k].q) = {Chars(liveReqs[s][k].user)}


\* The place of an account in a list, of a kind of result in a block, and the
\* last-updated timestamp of the gist a Gist result was made from.
PlaceIn(list, u) == CHOOSE k \in 1..Len(list) : list[k] = u
GroupOf(kind) == CASE kind = "Repo" -> 1 [] kind = "Gist" -> 2 [] OTHER -> 3
UpdatedAt(r) == (CHOOSE g \in AllGists : <<g.id>> = r.name).updated_at

\* C15: in the results of a search, a result of an earlier account of the list
\* never comes after one of a later account; within an account the Repo results
\* come first, then the Gist results, then the live results; the Repo results
\* are in non-decreasing order of name and the Gist results in non-decreasing
\* order of last-updated timestamp.
C15_ResultOrder ==
  \A s \in Searches : \A i, j \in 1..Len(results[s]) :
    i < j =>
      LET a == results[s][i]
          b == results[s][j]
      IN  /\ PlaceIn(started[s].users, a.user) <= PlaceIn(started[s].users, b.user)
          /\ a.user = b.user =>
               /\ GroupOf(a.kind) <= GroupOf(b.kind)
               /\ (a.kind = "Repo" /\ b.kind = "Repo") => ~StrGt(a.name, b.name)
               /\ (a.kind = "Gist" /\ b.kind = "Gist") => UpdatedAt(a) <= UpdatedAt(b)

\* A search over two accounts returned two repositories, two gists and a live
\* result for each, from caches that held them in another order.
C15_Witness ==
  \E s \in Searches :
    /\ pc[s] = "done"
    /\ [k \in 1..Len(results[s]) |-> results[s][k].kind]
         = <<"Repo", "Repo", "Gist", "Gist", "Issue", "Repo", "Repo", "Gist", "Gist", "PR">>
    /\ results[s][1].name = RepoC.name
    /\ results[s][3].name = <<GistA.id>>
    /\ results[s][5].user = "alice"
    /\ results[s][6].user = "bob"


\* C16: the list a search returns has no two entries with the same url.
C16_NoDuplicateUrl ==
  \A s \in Searches :
    pc[s] = "done" =>
      \A i, j \in 1..Len(results[s]) : i # j => results[s][i].url # results[s][j].url


\* C17: a walk has at most one request without its response, and exactly one
\* while it runs; its requests follow the account list; after the gist request
\* of an account nothing more is asked for it; and whenever something has been
\* asked for an account, every earlier account of the list is recorded, all its
\* requests (pages and, in the gists variant, gists) answered.
C17_OneOutstanding ==
  \A w \in AllWalks :
    /\ Len(w.reqs) - Len(w.resps) \in {0, 1}
    /\ w.status = "running" => Len(w.reqs) = Len(w.resps) + 1
    /\ \A k, l \in 1..Len(w.reqs) :
         k < l =>
           /\ PlaceIn(w.usernames, w.reqs[k].user) <= PlaceIn(w.usernames, w.reqs[l].user)
           /\ w.reqs[k].user = w.reqs[l].user => w.reqs[k].kind = "page"
    /\ \A l \in 1..Len(w.reqs) : \A j \in 1..Len(w.usernames) :
         j < PlaceIn(w.usernames, w.reqs[l].user) =>
           /\ w.usernames[j] \in DOMAIN w.dataByUser
           /\ \E k \in 1..(l - 1) : w.reqs[k].user = w.usernames[j] /\ k <= Len(w.resps)
           /\ variant = "gists" =>
                \E k \in 1..(l - 1) :
                   w.reqs[k] = GistRequest(w.usernames[j]) /\ k <= Len(w.resps)

\* A walk took two pages of its first account (and its gists) and waits for
\* the first page of the second.
C17_Witness ==
  \E w \in AllWalks :
    /\ w.status = "running"
    /\ w.i = 2
    /\ Len(PageReqs(w, w.usernames[1])) = 2
    /\ Len(w.reqs) = Len(w.resps) + 1
    /\ w.reqs[Len(w.reqs)] = PageRequest(w.usernames[2], NoCursor)


\* The gist request of account u in walk w was answered by a failure.
GistFailed(w, u) ==
  \E k \in 1..Len(w.resps) : w.reqs[k] = GistRequest(u) /\ w.resps[k].shape = "error"

\* C19: in the gists variant, when the gist request of an account fails the
\* walk does not fail by it: the account is recorded with the repositories of
\* its pages and no gists, and the account after it is walked; a walk is only
\* ever rejected on a page response.
C19_GistFailureIsolated ==
  \A w \in AllWalks :
    /\ w.status = "rejected" => w.reqs[Len(w.resps)].kind = "page"
    /\ \A j \in 1..Len(w.usernames) :
         GistFailed(w, w.usernames[j]) =>
           /\ w.usernames[j] \in DOMAIN w.dataByUser
           /\ w.dataByUser[w.usernames[j]].gists = <<>>
           /\ w.dataByUser[w.usernames[j]].repos = ItemsOf(PageResps(w, w.usernames[j]))
           /\ j < Len(w.usernames) => Len(PageReqs(w, w.usernames[j + 1])) >= 1
           /\ j = Len(w.usernames) => w.status = "resolved"

\* The gist request of the first of two accounts failed after a page with a
\* repository; the account is recorded and the second account is being walked.
C19_Witness ==
  \E w \in AllWalks :
    /\ variant = "gists"
    /\ Len(w.usernames) = 2
    /\ GistFailed(w, w.usernames[1])
    /\ w.dataByUser[w.usernames[1]].repos # <<>>
    /\ w.i = 2
    /\ w.status = "running"


\* The calls of the memoized fetcher search s has made: one at the top of every
\* turn of its loop over the accounts.
FetcherCalls(s) ==
  IF idx[s] > Len(started[s].users) THEN Len(started[s].users) ELSE idx[s]

\* C18: a search over one or more accounts, made when no walk is in flight, has
\* called the memoized fetcher once when it returns, and one walk has run.
C18_FetcherCalledOnce ==
  (pc[1] = "done" /\ started[1].users # <<>>)
    => FetcherCalls(1) = 1 /\ walkCount = 1


\* C20: a search uses the configuration it started with to its end: every call
\* of the fetcher it makes is a call of the fetcher of the init that was in
\* effect when it started, and every live request it makes goes through the
\* client of that init.
C20_ConsistentConfig ==
  [][\A s \in Searches :
       /\ (awaiting'[s] # 0 /\ awaiting'[s] # awaiting[s])
            => getRepos[1].config = started'[s].config
       /\ \A k \in 1..Len(liveReqs'[s]) :
            liveReqs'[s][k].client = started'[s].config]_vars

====
